---- MODULE Spec2Model ----
(***************************************************************************)
(* Model of backend/connector.py (BaseConnector) and backend/__main__.py:  *)
(* the constructor, the health-factor poller, the liquidation catch-up     *)
(* pass and the live liquidation monitor of one chain, run on one asyncio  *)
(* event loop.                                                             *)
(*                                                                         *)
(* Synchronous methods (health_factor_periodic_task,                       *)
(* catchup_on_liquidations) hold the event loop from their first to their  *)
(* last statement: no coroutine takes a step while one of them is running. *)
(* The chain and the RPC node are the environment and move at any time.    *)
(***************************************************************************)
EXTENDS Integers, Sequences, FiniteSets

\* ------------------------------------------------------------------ bounds
\* Health-factor readings a batch query may return (fixed-point, 2 == the
\* threshold of every tracked account, so 1 < threshold, 2 = threshold):
\* under the poller alone, and when every task runs.
MaxReading == 3
MaxReadingAll == 2
\* Longest list and largest batch size make_batches is applied to on its own.
MaxLen == 4
MaxBatchSize == 3
\* Highest block the chain reaches: under the catch-up pass alone, when the
\* live monitors run, and when every task runs.
MaxBlock == 3
MaxBlockBoth == 2
MaxBlockAll == 1
\* Undecodable messages the node pushes on one subscription.
MaxGarbage == 1
\* Polling cycles monitor_health_factor starts in one run: under the poller
\* alone, and when every task runs.
MaxCycles == 2
MaxCyclesAll == 1

\* HEALTH_FACTOR_BATCH_SIZE is 100 in the source; the model keeps the name and
\* scales the value so that a version's accounts span more than one batch.
HEALTH_FACTOR_BATCH_SIZE == 1

Versions == {"V2", "V3"}

\* --------------------------------------------------------------- registry
\* TrackedAccountWithHF: account.address, account.aave_version and
\* health_factor_threshold.
Account(a, v, t) == [address |-> a, aave_version |-> v, health_factor_threshold |-> t]

AllTracked == {Account(1, "V2", 2), Account(2, "V2", 2), Account(3, "V3", 2)}

\* Sequences over S without repetition, of every length.
RECURSIVE Perms(_)
Perms(S) ==
    IF S = {} THEN {<<>>}
    ELSE {<<>>} \cup UNION {{<<x>> \o p : p \in Perms(S \ {x})} : x \in S}

\* What get_relevant_accounts_with_thresholds may return when the registry
\* holds the accounts S: any of them, in any order (the table changes between
\* cycles).
RegistryLists(S) == Perms(S)

\* isTracked(chain, version, address) of the account registry.
isTracked(v, a) == \E acc \in AllTracked : acc.aave_version = v /\ acc.address = a

\* ------------------------------------------------------------ pure helpers
\* lst[i:j] of Python for 0 <= i <= j, 0-based and end-exclusive, clipped.
Slice(lst, i, j) ==
    LET hi == IF j < Len(lst) THEN j ELSE Len(lst)
    IN  IF i >= hi THEN <<>> ELSE SubSeq(lst, i + 1, hi)

\* range(0, n, step) as the sequence of its values.
RECURSIVE RangeFrom(_, _, _)
RangeFrom(i, n, step) ==
    IF i >= n THEN <<>> ELSE <<i>> \o RangeFrom(i + step, n, step)

\* A slice one element short: the off-by-one of lst[i:i + batch_size - 1].
make_batches_short(lst, batch_size) ==
    LET starts == RangeFrom(0, Len(lst), batch_size)
    IN  [k \in 1..Len(starts) |-> Slice(lst, starts[k], starts[k] + batch_size - 1)]

\* make_batches: the batches the generator yields, in order.
make_batches(lst, batch_size) ==
    LET starts == RangeFrom(0, Len(lst), batch_size)
    IN  [k \in 1..Len(starts) |-> Slice(lst, starts[k], starts[k] + batch_size)]

\* [x for x in lst if x.account.aave_version == v]
RECURSIVE FilterVersion(_, _)
FilterVersion(lst, v) ==
    IF lst = <<>> THEN <<>>
    ELSE (IF Head(lst).aave_version = v THEN <<Head(lst)>> ELSE <<>>)
         \o FilterVersion(Tail(lst), v)

\* zip(a, b): pairs up to the shorter length.
Zip(a, b) ==
    LET n == IF Len(a) < Len(b) THEN Len(a) ELSE Len(b)
    IN  [k \in 1..n |-> <<a[k], b[k]>>]

VARIABLES
    \* make_batches applied on its own
    lst, batch_size, batches, batchPc,
    \* monitor_health_factor / health_factor_periodic_task
    pollerPc, all_accounts, batch_i, v2_health_factors, v3_health_factors,
    failedBatch, notifyCalls,
    \* the cycles started so far, and the batch queries answered in this cycle
    cycle, queries,
    \* the chain and the RPC node
    head, chainLogs, subState, connClosed, garbageCount, wsQueue,
    \* settings store (LAST_<chain>_<version>_CHECKED_BLOCK) and notifier
    settings, liqNotifs,
    \* catchup_on_liquidations (logs: the locals v2_logs and v3_logs)
    catchupPc, logs, log_i, latestAtQuery, catchupHandled, failedPass,
    \* monitor_liquidations, one per protocol version, and the process
    monPc, printed, procState,
    \* BaseConnector(chain, ...): the process environment, the chain passed,
    \* where the constructor stands and the object it leaves
    environ, chain, ctorPc, connector,
    \* what the environment offers in this run: the blocks the chain may
    \* reach, the accounts the registry holds, the readings a query returns,
    \* the batch size in force and the cycles the poller gets to start
    scope

batchVars == <<lst, batch_size, batches, batchPc>>
pollerVars == <<pollerPc, all_accounts, batch_i, v2_health_factors,
                v3_health_factors, failedBatch, notifyCalls, cycle, queries>>
envVars == <<head, chainLogs, subState, connClosed, garbageCount, wsQueue>>
storeVars == <<settings, liqNotifs>>
catchupVars == <<catchupPc, logs, log_i, latestAtQuery, catchupHandled, failedPass>>
monitorVars == <<monPc, printed, procState>>
ctorVars == <<environ, chain, ctorPc, connector>>
vars == <<batchVars, pollerVars, envVars, storeVars, catchupVars, monitorVars,
          ctorVars, scope>>

\* What each group of actions leaves alone.
NotPoller == <<batchVars, envVars, storeVars, catchupVars, monitorVars, ctorVars, scope>>
NotCatchup == <<batchVars, pollerVars, envVars, monitorVars, ctorVars, scope>>
NotMonitor == <<batchVars, pollerVars, storeVars, catchupVars, ctorVars, scope>>
NotEnv == <<batchVars, pollerVars, storeVars, catchupVars, monitorVars, ctorVars, scope>>
NotCtor == <<batchVars, pollerVars, envVars, storeVars, catchupVars, monitorVars, scope>>

\* ------------------------------------------------- make_batches on its own
ListElems == 1..3

RECURSIVE SeqsUpTo(_, _)
SeqsUpTo(S, n) ==
    IF n = 0 THEN {<<>>}
    ELSE LET shorter == SeqsUpTo(S, n - 1)
         IN  shorter \cup {<<x>> \o q : x \in S, q \in {r \in shorter : Len(r) = n - 1}}

InitBatchesIdle ==
    /\ lst = <<>>
    /\ batch_size = 1
    /\ batches = <<>>
    /\ batchPc = "idle"

\* list(make_batches(lst, batch_size))
ApplyMakeBatches ==
    /\ batchPc = "input"
    /\ batches' = make_batches(lst, batch_size)
    /\ batchPc' = "done"
    /\ UNCHANGED <<lst, batch_size>>
    /\ UNCHANGED <<pollerVars, envVars, storeVars, catchupVars, monitorVars,
                   ctorVars, scope>>

\* ------------------------------------------------------------------ poller
v2_accounts == FilterVersion(all_accounts, "V2")
v3_accounts == FilterVersion(all_accounts, "V3")
v2_batches == make_batches(v2_accounts, scope.batch_size)
v3_batches == make_batches(v3_accounts, scope.batch_size)

NoBatch == <<>>

\* One answered call of get_v2_health_factors / get_v3_health_factors: the
\* getter's version, the batch passed and the list returned.
Query(v, batch, readings) == [aave_version |-> v, batch |-> batch, readings |-> readings]

\* As LoopPosition, with the comparison moved before the loop over the V3
\* batches: after the last V2 batch the thresholds are compared.
LoopPositionCompareEarly(accs, phase, i) ==
    LET n2 == Len(make_batches(FilterVersion(accs, "V2"), scope.batch_size))
    IN  IF phase = "v2" /\ i <= n2 THEN <<"v2", i>> ELSE <<"compare", 1>>

\* Where the two for-loops of health_factor_periodic_task stand once batch i of
\* `phase` is the next to fetch for the accounts accs: the loop over the V2
\* batches, then the loop over the V3 batches, then the comparison.
LoopPosition(accs, phase, i) ==
    LET n2 == Len(make_batches(FilterVersion(accs, "V2"), scope.batch_size))
        n3 == Len(make_batches(FilterVersion(accs, "V3"), scope.batch_size))
    IN  IF phase = "v2" /\ i <= n2 THEN <<"v2", i>>
        ELSE IF phase = "v2" THEN (IF n3 >= 1 THEN <<"v3", 1>> ELSE <<"compare", 1>>)
        ELSE IF i <= n3 THEN <<"v3", i>>
        ELSE <<"compare", 1>>

\* The calls self.notifier.notify(account, health_factor) of the last loop, in
\* order: one for every pair whose reading is below the account's threshold.
RECURSIVE NotifyCalls(_)
NotifyCalls(pairs) ==
    IF pairs = <<>> THEN <<>>
    ELSE (IF Head(pairs)[2] < Head(pairs)[1].health_factor_threshold
          THEN <<[account |-> Head(pairs)[1], health_factor |-> Head(pairs)[2]]>>
          ELSE <<>>) \o NotifyCalls(Tail(pairs))

\* The process is running: asyncio.run of __main__ has not returned or raised.
Alive == procState = "up"

\* A synchronous method is between its first and its last statement: it does
\* not await, so the event loop runs nothing else until it returns or raises.
PollerInSync == pollerPc \in {"v2", "v3", "compare"}
CatchupInSync == catchupPc \in {"v2_get", "v2_proc", "v3_get", "v3_proc"}
\* As LoopFree, with ws.recv() a blocking call: a monitor that waits for a
\* message holds the event loop as a synchronous method does.
Waiting(v) == monPc[v] \in {"await_ack", "receiving"} /\ wsQueue[v] = <<>> /\ ~connClosed[v]
LoopFreeOfReceivers ==
    ~PollerInSync /\ ~CatchupInSync /\ \A v \in Versions : ~Waiting(v)

LoopFree == ~PollerInSync /\ ~CatchupInSync

InitPoller ==
    /\ pollerPc = "notstarted"
    /\ all_accounts = <<>>
    /\ batch_i = 1
    /\ v2_health_factors = <<>>
    /\ v3_health_factors = <<>>
    /\ failedBatch = NoBatch
    /\ notifyCalls = <<>>
    /\ cycle = 0
    /\ queries = <<>>

\* monitor_health_factor() is called: the coroutine is scheduled.
StartPoller ==
    /\ pollerPc = "notstarted"
    /\ pollerPc' = "ready"
    /\ UNCHANGED <<all_accounts, batch_i, v2_health_factors, v3_health_factors,
                   failedBatch, notifyCalls, cycle, queries>>
    /\ Alive
    /\ UNCHANGED NotPoller

\* health_factor_periodic_task begins: the registry returns the accounts and
\* the two reading lists start empty.
PollFetch ==
    /\ pollerPc = "ready"
    /\ LoopFree
    /\ cycle < scope.cycles
    /\ cycle' = cycle + 1
    /\ queries' = <<>>
    /\ \E accs \in RegistryLists(scope.accounts) :
         /\ all_accounts' = accs
         /\ pollerPc' = LoopPosition(accs, "v2", 1)[1]
         /\ batch_i' = 1
    /\ v2_health_factors' = <<>>
    /\ v3_health_factors' = <<>>
    /\ failedBatch' = NoBatch
    /\ notifyCalls' = <<>>
    /\ Alive
    /\ UNCHANGED NotPoller

\* get_relevant_accounts_with_thresholds raises: nothing catches it, neither in
\* health_factor_periodic_task nor in monitor_health_factor.
PollFetchRaises ==
    /\ pollerPc = "ready"
    /\ LoopFree
    /\ cycle < scope.cycles
    /\ cycle' = cycle + 1
    /\ queries' = <<>>
    /\ pollerPc' = "crashed"
    /\ all_accounts' = <<>>
    /\ batch_i' = 1
    /\ v2_health_factors' = <<>>
    /\ v3_health_factors' = <<>>
    /\ failedBatch' = NoBatch
    /\ notifyCalls' = <<>>
    /\ Alive
    /\ UNCHANGED NotPoller

\* One iteration of the loop over the V2 batches: the query returns one reading
\* per account of the batch, in the order of the batch.
PollQueryV2 ==
    /\ pollerPc = "v2"
    /\ \E r \in [1..Len(v2_batches[batch_i]) -> 1..scope.readings] :
         /\ v2_health_factors' = v2_health_factors \o r
         /\ queries' = Append(queries, Query("V2", v2_batches[batch_i], r))
    /\ pollerPc' = LoopPosition(all_accounts, "v2", batch_i + 1)[1]
    /\ batch_i' = LoopPosition(all_accounts, "v2", batch_i + 1)[2]
    /\ UNCHANGED <<all_accounts, v3_health_factors, failedBatch, notifyCalls, cycle>>
    /\ Alive
    /\ UNCHANGED NotPoller

\* One iteration of the loop over the V3 batches.
PollQueryV3 ==
    /\ pollerPc = "v3"
    /\ \E r \in [1..Len(v3_batches[batch_i]) -> 1..scope.readings] :
         /\ v3_health_factors' = v3_health_factors \o r
         /\ queries' = Append(queries, Query("V3", v3_batches[batch_i], r))
    /\ pollerPc' = LoopPosition(all_accounts, "v3", batch_i + 1)[1]
    /\ batch_i' = LoopPosition(all_accounts, "v3", batch_i + 1)[2]
    /\ UNCHANGED <<all_accounts, v2_health_factors, failedBatch, notifyCalls, cycle>>
    /\ Alive
    /\ UNCHANGED NotPoller

\* get_v2_health_factors / get_v3_health_factors raises: the exception leaves
\* health_factor_periodic_task and then the while-loop of monitor_health_factor.
PollQueryRaises ==
    /\ pollerPc \in {"v2", "v3"}
    /\ failedBatch' = <<pollerPc, batch_i>>
    /\ pollerPc' = "crashed"
    /\ UNCHANGED <<all_accounts, batch_i, v2_health_factors, v3_health_factors,
                   notifyCalls, cycle, queries>>
    /\ Alive
    /\ UNCHANGED NotPoller

\* As PollCompare, with the readings zipped against all_accounts, the list in
\* the order of the registry, instead of v2_accounts + v3_accounts.
PollCompareRegistryOrder ==
    /\ pollerPc = "compare"
    /\ notifyCalls' = NotifyCalls(Zip(all_accounts,
                                      v2_health_factors \o v3_health_factors))
    /\ pollerPc' = "sleep"
    /\ UNCHANGED <<all_accounts, batch_i, v2_health_factors, v3_health_factors,
                   failedBatch, cycle, queries>>
    /\ Alive
    /\ UNCHANGED NotPoller

\* The last loop: accounts and readings are zipped and compared; the function
\* returns and monitor_health_factor awaits asyncio.sleep.
PollCompare ==
    /\ pollerPc = "compare"
    /\ notifyCalls' = NotifyCalls(Zip(v2_accounts \o v3_accounts,
                                      v2_health_factors \o v3_health_factors))
    /\ pollerPc' = "sleep"
    /\ UNCHANGED <<all_accounts, batch_i, v2_health_factors, v3_health_factors,
                   failedBatch, cycle, queries>>
    /\ Alive
    /\ UNCHANGED NotPoller

\* self.notifier.notify raises at its k-th call of the last loop: the calls
\* before it were made, the later ones are not, and the exception leaves
\* health_factor_periodic_task and monitor_health_factor.
PollNotifyRaises ==
    /\ pollerPc = "compare"
    /\ LET calls == NotifyCalls(Zip(v2_accounts \o v3_accounts,
                                    v2_health_factors \o v3_health_factors))
       IN  \E k \in 1..Len(calls) : notifyCalls' = SubSeq(calls, 1, k)
    /\ pollerPc' = "crashed"
    /\ UNCHANGED <<all_accounts, batch_i, v2_health_factors, v3_health_factors,
                   failedBatch, cycle, queries>>
    /\ Alive
    /\ UNCHANGED NotPoller

\* As PollWake, with the next turn of the loop started by the period alone,
\* whether or not the cycle before it has returned.
PollWakeOnTimer ==
    /\ pollerPc \in {"sleep", "v2", "v3", "compare"}
    /\ pollerPc' = "ready"
    /\ all_accounts' = <<>>
    /\ batch_i' = 1
    /\ v2_health_factors' = <<>>
    /\ v3_health_factors' = <<>>
    /\ failedBatch' = NoBatch
    /\ notifyCalls' = <<>>
    /\ queries' = <<>>
    /\ UNCHANGED cycle
    /\ Alive
    /\ UNCHANGED NotPoller

\* asyncio.sleep(HEALTH_FACTOR_CHECK_PERIOD) returns: next turn of while True.
\* The locals of the cycle that ended are gone, and the record of its notifier
\* calls is closed.
PollWake ==
    /\ pollerPc = "sleep"
    /\ pollerPc' = "ready"
    /\ all_accounts' = <<>>
    /\ batch_i' = 1
    /\ v2_health_factors' = <<>>
    /\ v3_health_factors' = <<>>
    /\ failedBatch' = NoBatch
    /\ notifyCalls' = <<>>
    /\ queries' = <<>>
    /\ UNCHANGED cycle
    /\ Alive
    /\ UNCHANGED NotPoller

PollerStep ==
    \/ StartPoller
    \/ PollFetch
    \/ PollFetchRaises
    \/ PollQueryV2
    \/ PollQueryV3
    \/ PollQueryRaises
    \/ PollCompare
    \/ PollNotifyRaises
    \/ PollWake

\* ------------------------------------------------------------ wire messages
\* A raw websocket message is the token sequence of its text.  A pushed log
\* carries the block number and the liquidated address.
RawLog(b, a) == <<"{", "blockNumber", b, "address", a, "}">>
RawAckOk == <<"{", "result", 1, "}">>
RawAckError == <<"{", "error", 1, "}">>
\* A text cut off before its value: not JSON.
RawGarbage == <<"{", "blockNumber", "}">>

\* json.loads: the decoded object as its set of <<key, value>> pairs, or a
\* JSONDecodeError when the text is not a well-formed object.
json_loads(raw) ==
    LET n == Len(raw)
        wellFormed == /\ n >= 2
                      /\ raw[1] = "{"
                      /\ raw[n] = "}"
                      /\ (n - 2) % 2 = 0
    IN  IF wellFormed
        THEN [ok |-> TRUE, value |-> {<<raw[2 * k], raw[2 * k + 1]>> : k \in 1..((n - 2) \div 2)}]
        ELSE [ok |-> FALSE, value |-> {}]

\* 'key' in decoded
HasKey(decoded, key) == \E p \in decoded : p[1] = key

\* ------------------------------------------------------ chain and RPC node
Log(v, b, a) == [aave_version |-> v, blockNumber |-> b, address |-> a]

\* Addresses liquidated on chain: 1 is tracked on V2 only, 3 on V3 only.
LiquidatedAddresses == {1, 3}

InitEnv ==
    /\ head = 0
    /\ chainLogs = <<>>
    /\ subState = [v \in Versions |-> "none"]
    /\ connClosed = [v \in Versions |-> FALSE]
    /\ garbageCount = [v \in Versions |-> 0]
    /\ wsQueue = [v \in Versions |-> <<>>]

\* A block with a liquidation on pool v is mined; the node pushes the log on
\* the subscription of v when that subscription is active.
EmitLiquidation(v, a) ==
    /\ head < scope.blocks
    /\ head' = head + 1
    /\ chainLogs' = Append(chainLogs, Log(v, head + 1, a))
    /\ wsQueue' = IF subState[v] = "active" /\ ~connClosed[v]
                  THEN [wsQueue EXCEPT ![v] = Append(@, RawLog(head + 1, a))]
                  ELSE wsQueue
    /\ UNCHANGED <<subState, connClosed, garbageCount>>
    /\ UNCHANGED NotEnv

\* The node answers the eth_subscribe request: accepted (the subscription is
\* active from now on), rejected with an error object, or an undecodable text.
NodeAck(v) ==
    /\ subState[v] = "requested"
    /\ ~connClosed[v]
    /\ \E ack \in {RawAckOk, RawAckError, RawGarbage} :
         /\ wsQueue' = [wsQueue EXCEPT ![v] = Append(@, ack)]
         /\ subState' = [subState EXCEPT ![v] =
                            IF ack = RawAckOk THEN "active"
                            ELSE IF ack = RawAckError THEN "rejected"
                            ELSE "garbled"]
    /\ UNCHANGED <<head, chainLogs, connClosed, garbageCount>>
    /\ UNCHANGED NotEnv

\* The node pushes a text that is not JSON on an active subscription.
NodePushGarbage(v) ==
    /\ subState[v] = "active"
    /\ ~connClosed[v]
    /\ garbageCount[v] < MaxGarbage
    /\ garbageCount' = [garbageCount EXCEPT ![v] = @ + 1]
    /\ wsQueue' = [wsQueue EXCEPT ![v] = Append(@, RawGarbage)]
    /\ UNCHANGED <<head, chainLogs, subState, connClosed>>
    /\ UNCHANGED NotEnv

\* The websocket connection of v is closed or breaks.
CloseConnection(v) ==
    /\ subState[v] # "none"
    /\ ~connClosed[v]
    /\ connClosed' = [connClosed EXCEPT ![v] = TRUE]
    /\ UNCHANGED <<head, chainLogs, subState, garbageCount, wsQueue>>
    /\ UNCHANGED NotEnv

ChainStep == \E v \in Versions, a \in LiquidatedAddresses : EmitLiquidation(v, a)

EnvStep ==
    \/ ChainStep
    \/ \E v \in Versions : NodeAck(v)
    \/ \E v \in Versions : NodePushGarbage(v)
    \/ \E v \in Versions : CloseConnection(v)

\* What get_setting returns for a key that was never stored.
NoCheckpoint == -1

\* web3.eth.get_logs({'address': pool, 'topics': [topic], 'fromBlock': from,
\* 'toBlock': 'latest'}): the logs of pool v in blocks from..head, ascending.
\* The value read from the settings goes into the filter as it is; a filter
\* whose fromBlock holds no block number is answered by the node from its
\* latest block (or refused: CatchupGetLogsRaises).
get_logs(v, from) ==
    LET fromBlock == IF from = NoCheckpoint THEN head ELSE from
    IN  SelectSeq(chainLogs, LAMBDA l : l.aave_version = v /\ l.blockNumber >= fromBlock)

\* ------------------------------------------------- settings and notifier
InitStore ==
    /\ settings = [v \in Versions |-> 0]
    /\ liqNotifs = <<>>

\* process_liquidation_log(aave_version, log): notify when the liquidated
\* address is a tracked account of this chain and version, else nothing.
process_liquidation_log(v, log) ==
    IF isTracked(v, log.address)
    THEN Append(liqNotifs, [aave_version |-> v, log |-> log])
    ELSE liqNotifs

\* ----------------------------------------------------------------- catch-up
\* No get_logs call and no process_liquidation_log call has raised.
NoPass == "none"

InitCatchup ==
    /\ catchupPc = "notstarted"
    /\ logs = [v \in Versions |-> <<>>]
    /\ log_i = 1
    /\ latestAtQuery = [v \in Versions |-> -1]
    /\ catchupHandled = <<>>
    /\ failedPass = NoPass

\* catchup_on_liquidations() is called: get_setting is read and the V2
\* get_logs request goes out.
CatchupStart ==
    /\ catchupPc = "notstarted"
    /\ LoopFree
    /\ catchupPc' = "v2_get"
    /\ UNCHANGED <<logs, log_i, latestAtQuery, catchupHandled, failedPass, storeVars>>
    /\ Alive
    /\ UNCHANGED NotCatchup

\* Where the function stands once the logs of `phase` are fetched.
AfterGet(phase, fetched) ==
    IF fetched # <<>> THEN (IF phase = "v2_get" THEN "v2_proc" ELSE "v3_proc")
    ELSE IF phase = "v2_get" THEN "v3_get" ELSE "done"

\* get_logs returns for the version being caught up.
CatchupGetLogs ==
    /\ catchupPc \in {"v2_get", "v3_get"}
    /\ LET v == IF catchupPc = "v2_get" THEN "V2" ELSE "V3"
           fetched == get_logs(v, settings[v])
       IN  /\ logs' = [logs EXCEPT ![v] = fetched]
           /\ latestAtQuery' = [latestAtQuery EXCEPT ![v] = head]
           /\ catchupPc' = AfterGet(catchupPc, fetched)
    /\ log_i' = 1
    /\ UNCHANGED <<catchupHandled, failedPass, storeVars>>
    /\ Alive
    /\ UNCHANGED NotCatchup

\* get_logs raises: nothing in catchup_on_liquidations catches it.
CatchupGetLogsRaises ==
    /\ catchupPc \in {"v2_get", "v3_get"}
    /\ catchupPc' = "crashed"
    /\ failedPass' = (IF catchupPc = "v2_get" THEN "V2" ELSE "V3")
    /\ UNCHANGED <<logs, log_i, latestAtQuery, catchupHandled, storeVars>>
    /\ Alive
    /\ UNCHANGED NotCatchup

\* One iteration of `for log in logs: self.process_liquidation_log(v, log)`.
CatchupProcess ==
    /\ catchupPc \in {"v2_proc", "v3_proc"}
    /\ LET v == IF catchupPc = "v2_proc" THEN "V2" ELSE "V3"
       IN  /\ liqNotifs' = process_liquidation_log(v, logs[v][log_i])
           /\ catchupHandled' = Append(catchupHandled, logs[v][log_i])
           /\ IF log_i < Len(logs[v])
              THEN /\ log_i' = log_i + 1
                   /\ catchupPc' = catchupPc
              ELSE /\ log_i' = 1
                   /\ catchupPc' = IF catchupPc = "v2_proc" THEN "v3_get" ELSE "done"
    /\ UNCHANGED <<logs, latestAtQuery, failedPass, settings>>
    /\ Alive
    /\ UNCHANGED NotCatchup

\* process_liquidation_log raises on the current log: the exception leaves
\* catchup_on_liquidations.
CatchupProcessRaises ==
    /\ catchupPc \in {"v2_proc", "v3_proc"}
    /\ catchupPc' = "crashed"
    /\ failedPass' = (IF catchupPc = "v2_proc" THEN "V2" ELSE "V3")
    /\ UNCHANGED <<logs, log_i, latestAtQuery, catchupHandled, storeVars>>
    /\ Alive
    /\ UNCHANGED NotCatchup

CatchupStep ==
    \/ CatchupStart
    \/ CatchupGetLogs
    \/ CatchupGetLogsRaises
    \/ CatchupProcess
    \/ CatchupProcessRaises

\* -------------------------------------------------------------- live monitor
InitMonitor ==
    /\ monPc = [v \in Versions |-> "notstarted"]
    /\ printed = [v \in Versions |-> <<>>]
    /\ procState = "up"

\* The coroutine of v ended; __main__ runs the V2 monitor under asyncio.run, so
\* when that one returns or raises the script is over.
ProcessAfterEnd(v) == IF v = "V2" THEN "exited" ELSE procState

\* monitor_liquidations(aave_version) is called: pool address and topic are
\* chosen and websockets.connect is awaited.
StartMonitor(v) ==
    /\ monPc[v] = "notstarted"
    /\ monPc' = [monPc EXCEPT ![v] = "connecting"]
    /\ UNCHANGED <<printed, procState, envVars>>
    /\ Alive
    /\ UNCHANGED NotMonitor

\* The connection is open and ws.send(subscription message) is done; the
\* coroutine awaits the response.
MonSubscribe(v) ==
    /\ monPc[v] = "connecting"
    /\ LoopFree
    /\ monPc' = [monPc EXCEPT ![v] = "await_ack"]
    /\ subState' = [subState EXCEPT ![v] = "requested"]
    /\ UNCHANGED <<printed, procState, head, chainLogs, connClosed, garbageCount, wsQueue>>
    /\ Alive
    /\ UNCHANGED NotMonitor

\* raw_subscription_response = await ws.recv(), then the two checks: a text
\* that does not decode, or a response holding 'error', raises
\* StartupException; otherwise the receive loop is entered.
MonRecvAck(v) ==
    /\ monPc[v] = "await_ack"
    /\ LoopFree
    /\ wsQueue[v] # <<>>
    /\ LET decoded == json_loads(Head(wsQueue[v]))
           failed == ~decoded.ok \/ HasKey(decoded.value, "error")
       IN  /\ monPc' = [monPc EXCEPT ![v] = IF failed THEN "startup_failed" ELSE "receiving"]
           /\ procState' = IF failed THEN ProcessAfterEnd(v) ELSE procState
    /\ wsQueue' = [wsQueue EXCEPT ![v] = Tail(@)]
    /\ UNCHANGED <<printed, head, chainLogs, subState, connClosed, garbageCount>>
    /\ Alive
    /\ UNCHANGED NotMonitor

\* The connection closes while the response is awaited: ws.recv() raises
\* outside any try, and the coroutine ends with that exception.
MonAckConnectionClosed(v) ==
    /\ monPc[v] = "await_ack"
    /\ LoopFree
    /\ wsQueue[v] = <<>>
    /\ connClosed[v]
    /\ monPc' = [monPc EXCEPT ![v] = "crashed"]
    /\ procState' = ProcessAfterEnd(v)
    /\ UNCHANGED <<printed, envVars>>
    /\ Alive
    /\ UNCHANGED NotMonitor

\* As MonRecv, with `break` for `continue`: an undecodable message ends the loop.
MonRecvBreaksOnGarbage(v) ==
    /\ monPc[v] = "receiving"
    /\ LoopFree
    /\ wsQueue[v] # <<>>
    /\ LET decoded == json_loads(Head(wsQueue[v]))
       IN  /\ printed' = IF decoded.ok
                         THEN [printed EXCEPT ![v] = Append(@, decoded.value)]
                         ELSE printed
           /\ monPc' = IF decoded.ok THEN monPc ELSE [monPc EXCEPT ![v] = "stopped"]
           /\ procState' = IF decoded.ok THEN procState ELSE ProcessAfterEnd(v)
    /\ wsQueue' = [wsQueue EXCEPT ![v] = Tail(@)]
    /\ UNCHANGED <<head, chainLogs, subState, connClosed, garbageCount>>
    /\ Alive
    /\ UNCHANGED NotMonitor

\* One turn of the receive loop with a message: a text that does not decode is
\* logged and the loop continues; a decoded message is printed.
MonRecv(v) ==
    /\ monPc[v] = "receiving"
    /\ LoopFree
    /\ wsQueue[v] # <<>>
    /\ LET decoded == json_loads(Head(wsQueue[v]))
       IN  printed' = IF decoded.ok
                      THEN [printed EXCEPT ![v] = Append(@, decoded.value)]
                      ELSE printed
    /\ wsQueue' = [wsQueue EXCEPT ![v] = Tail(@)]
    /\ UNCHANGED <<monPc, procState, head, chainLogs, subState, connClosed, garbageCount>>
    /\ Alive
    /\ UNCHANGED NotMonitor

\* As MonRecvRaises, with the coroutine going back to websockets.connect instead
\* of leaving the loop: a monitor that reconnects by itself.
MonRecvRaisesReconnects(v) ==
    /\ monPc[v] = "receiving"
    /\ LoopFree
    /\ wsQueue[v] = <<>>
    /\ connClosed[v]
    /\ monPc' = [monPc EXCEPT ![v] = "connecting"]
    /\ UNCHANGED <<printed, procState, envVars>>
    /\ Alive
    /\ UNCHANGED NotMonitor

\* ws.recv() raises in the receive loop: logged, break, the coroutine returns.
MonRecvRaises(v) ==
    /\ monPc[v] = "receiving"
    /\ LoopFree
    /\ wsQueue[v] = <<>>
    /\ connClosed[v]
    /\ monPc' = [monPc EXCEPT ![v] = "stopped"]
    /\ procState' = ProcessAfterEnd(v)
    /\ UNCHANGED <<printed, envVars>>
    /\ Alive
    /\ UNCHANGED NotMonitor

MonitorStep ==
    \/ \E v \in Versions : StartMonitor(v)
    \/ \E v \in Versions : MonSubscribe(v)
    \/ \E v \in Versions : MonRecvAck(v)
    \/ \E v \in Versions : MonAckConnectionClosed(v)
    \/ \E v \in Versions : MonRecv(v)
    \/ \E v \in Versions : MonRecvRaises(v)

\* -------------------------------------------------------------- constructor
\* The members of the Chain enumeration, by name.
Chains == {"ETHEREUM", "OPTIMISM"}

\* os.getenv of a variable that is not set.
None == "<None>"

\* The values a variable of the process environment may hold: not set, set to
\* the empty string, or set to an endpoint location.
EnvValues == {None, "", "rpc-a", "rpc-b"}

\* The variables f'{chain.name}_HTTP_RPC' and f'{chain.name}_WS_RPC', as the
\* pair of the chain's name and the suffix.
EnvNames == Chains \X {"HTTP_RPC", "WS_RPC"}

\* os.getenv(name)
getenv(name) == environ[name]

\* Python's truth value of an Optional[str]: None and '' are false.
Truthy(x) == x # None /\ x # ""

\* No object: the constructor has not returned one.
NoConnector ==
    [created |-> FALSE, chain |-> None, http_rpc_url |-> None,
     ws_rpc_url |-> None, web3 |-> None]

\* The object after __init__: web3 is the HTTPProvider client of the url.
Connector(c, http, ws) ==
    [created |-> TRUE, chain |-> c, http_rpc_url |-> http,
     ws_rpc_url |-> ws, web3 |-> http]

\* As BaseConnector_init, with `and` for `or` in the check of the endpoints.
BaseConnector_init_and ==
    /\ ctorPc = "call"
    /\ LET http_rpc_url == getenv(<<chain, "HTTP_RPC">>)
           ws_rpc_url == getenv(<<chain, "WS_RPC">>)
       IN  IF ~Truthy(http_rpc_url) /\ ~Truthy(ws_rpc_url)
           THEN /\ ctorPc' = "StartupException"
                /\ connector' = NoConnector
           ELSE /\ ctorPc' = "constructed"
                /\ connector' = Connector(chain, http_rpc_url, ws_rpc_url)
    /\ UNCHANGED <<environ, chain>>
    /\ UNCHANGED NotCtor

\* BaseConnector.__init__(chain, notifier, settings, v2_pool_address,
\* v3_pool_address): both endpoints are looked up and checked before any field
\* is set and before the web3 client is made.
BaseConnector_init ==
    /\ ctorPc = "call"
    /\ LET http_rpc_url == getenv(<<chain, "HTTP_RPC">>)
           ws_rpc_url == getenv(<<chain, "WS_RPC">>)
       IN  IF ~Truthy(http_rpc_url) \/ ~Truthy(ws_rpc_url)
           THEN /\ ctorPc' = "StartupException"
                /\ connector' = NoConnector
           ELSE /\ ctorPc' = "constructed"
                /\ connector' = Connector(chain, http_rpc_url, ws_rpc_url)
    /\ UNCHANGED <<environ, chain>>
    /\ UNCHANGED NotCtor

\* The connector of __main__, constructed for ETHEREUM with both endpoints set.
InitConstructed ==
    /\ environ = [n \in EnvNames |-> IF n[1] # "ETHEREUM" THEN None
                                     ELSE IF n[2] = "HTTP_RPC" THEN "rpc-a" ELSE "rpc-b"]
    /\ chain = "ETHEREUM"
    /\ ctorPc = "constructed"
    /\ connector = Connector("ETHEREUM", "rpc-a", "rpc-b")

\* ------------------------------------------------------------ specifications
\* Everything but the inputs of make_batches and the scope, before any call.
InitTasks ==
    /\ InitPoller
    /\ InitEnv
    /\ InitCatchup
    /\ InitMonitor

InitProgram ==
    /\ InitTasks
    /\ InitStore
    /\ InitConstructed

\* The poller alone: a caller runs monitor_health_factor and nothing else.
InitPollerOnly ==
    /\ InitBatchesIdle
    /\ InitProgram
    /\ scope = [blocks |-> 0, accounts |-> AllTracked, readings |-> MaxReading,
                batch_size |-> HEALTH_FACTOR_BATCH_SIZE, cycles |-> MaxCycles]

NextPoller == PollerStep

SpecPoller == InitPollerOnly /\ [][NextPoller]_vars

\* The catch-up pass alone, on a chain that keeps emitting liquidations.
InitCatchupOnly ==
    /\ InitBatchesIdle
    /\ InitProgram
    /\ scope = [blocks |-> MaxBlock, accounts |-> AllTracked, readings |-> MaxReading,
                batch_size |-> HEALTH_FACTOR_BATCH_SIZE, cycles |-> MaxCycles]

NextCatchup == CatchupStep \/ ChainStep

SpecCatchup == InitCatchupOnly /\ [][NextCatchup]_vars

\* The live monitors of both versions (and, below, the catch-up pass with
\* them), the chain and the node, on a chain of MaxBlockBoth blocks.
InitCatchupAndMonitor ==
    /\ InitBatchesIdle
    /\ InitProgram
    /\ scope = [blocks |-> MaxBlockBoth, accounts |-> AllTracked, readings |-> MaxReading,
                batch_size |-> HEALTH_FACTOR_BATCH_SIZE, cycles |-> MaxCycles]

NextMonitor == MonitorStep \/ EnvStep

SpecMonitor == InitCatchupAndMonitor /\ [][NextMonitor]_vars

\* Every task on one event loop, on a chain of MaxBlockAll blocks and a
\* registry of one account per protocol version.
Init ==
    /\ InitBatchesIdle
    /\ InitProgram
    /\ scope = [blocks |-> MaxBlockAll,
                accounts |-> {Account(1, "V2", 2), Account(3, "V3", 2)},
                readings |-> MaxReadingAll,
                batch_size |-> HEALTH_FACTOR_BATCH_SIZE, cycles |-> MaxCyclesAll]

Next == PollerStep \/ CatchupStep \/ MonitorStep \/ EnvStep

Spec == Init /\ [][Next]_vars

\* The poller and both live monitors on one event loop, with the chain and a
\* node that keeps its connections open and pushes nothing but logs.
NextConcurrent ==
    \/ PollerStep
    \/ \E v \in Versions : StartMonitor(v)
    \/ \E v \in Versions : MonSubscribe(v)
    \/ \E v \in Versions : MonRecvAck(v)
    \/ \E v \in Versions : MonRecv(v)
    \/ ChainStep
    \/ \E v \in Versions : NodeAck(v)

SpecConcurrent == Init /\ [][NextConcurrent]_vars

\* The liquidation side: catch-up pass, both live monitors, chain and node.
NextLiquidations == CatchupStep \/ MonitorStep \/ EnvStep

SpecLiquidations == InitCatchupAndMonitor /\ [][NextLiquidations]_vars

\* make_batches applied to every list and batch size within the bounds.
InitBatches ==
    /\ lst \in SeqsUpTo(ListElems, MaxLen)
    /\ batch_size \in 1..MaxBatchSize
    /\ batches = <<>>
    /\ batchPc = "input"
    /\ InitProgram
    /\ scope = [blocks |-> 0, accounts |-> {}, readings |-> MaxReading,
                batch_size |-> HEALTH_FACTOR_BATCH_SIZE, cycles |-> MaxCycles]

NextBatches == ApplyMakeBatches

SpecBatches == InitBatches /\ [][NextBatches]_vars

\* The constructor alone, for every chain and every process environment.
InitCall ==
    /\ InitBatchesIdle
    /\ InitTasks
    /\ InitStore
    /\ environ \in [EnvNames -> EnvValues]
    /\ chain \in Chains
    /\ ctorPc = "call"
    /\ connector = NoConnector
    /\ scope = [blocks |-> 0, accounts |-> {}, readings |-> MaxReading,
                batch_size |-> HEALTH_FACTOR_BATCH_SIZE, cycles |-> MaxCycles]

NextInit == BaseConnector_init

SpecInit == InitCall /\ [][NextInit]_vars

\* The catch-up pass alone on a store that may hold no checkpoint yet for a
\* version (first run), on a chain that keeps emitting liquidations.
InitFirstRun ==
    /\ InitBatchesIdle
    /\ InitTasks
    /\ InitConstructed
    /\ settings \in [Versions -> {NoCheckpoint, 0}]
    /\ liqNotifs = <<>>
    /\ scope = [blocks |-> MaxBlock, accounts |-> AllTracked, readings |-> MaxReading,
                batch_size |-> HEALTH_FACTOR_BATCH_SIZE, cycles |-> MaxCycles]

SpecFirstRun == InitFirstRun /\ [][NextCatchup]_vars

\* The poller alone, for every batch size up to MaxBatchSize and a registry
\* with two accounts of each protocol version.
InitPairing ==
    /\ InitBatchesIdle
    /\ InitProgram
    /\ \E b \in 1..MaxBatchSize :
         scope = [blocks |-> 0, accounts |-> AllTracked \cup {Account(4, "V3", 3)},
                  readings |-> MaxReading,
                  batch_size |-> b, cycles |-> MaxCyclesAll]

SpecPairing == InitPairing /\ [][NextPoller]_vars

\* ===================================================================== claims
\* The batches of a sequence of batches joined in order.
RECURSIVE Concat(_)
Concat(ss) == IF ss = <<>> THEN <<>> ELSE Head(ss) \o Concat(Tail(ss))

\* The value a decoded message holds for a key.
GetKey(decoded, key) == (CHOOSE p \in decoded : p[1] = key)[2]

\* The readings of the cycle paired with their accounts, as far as the cycle
\* got: zip(v2_accounts + v3_accounts, v2_health_factors + v3_health_factors).
CyclePairs == Zip(v2_accounts \o v3_accounts, v2_health_factors \o v3_health_factors)

\* The notifier calls of the cycle made for account acc.
CallsFor(acc) == {k \in 1..Len(notifyCalls) : notifyCalls[k].account = acc}

\* The cycle is over: the function returned (the loop sleeps) or raised.
CycleOver == pollerPc \in {"sleep", "crashed"}

\* C1: in one polling cycle, every account returned by the registry gets a
\* notifier call if and only if the health factor computed for it is strictly
\* below its threshold, exactly one call, carrying the account and that factor.
C1_AlertIffBelowThreshold ==
    CycleOver =>
        /\ \A k \in 1..Len(CyclePairs) :
             LET acc == CyclePairs[k][1]
                 hf == CyclePairs[k][2]
             IN  /\ Cardinality(CallsFor(acc)) =
                        (IF hf < acc.health_factor_threshold THEN 1 ELSE 0)
                 /\ \A c \in CallsFor(acc) : notifyCalls[c].health_factor = hf
        /\ \A c \in 1..Len(notifyCalls) :
             \E k \in 1..Len(CyclePairs) : CyclePairs[k][1] = notifyCalls[c].account

\* C2: for a non-empty list and a batch size B >= 1 the batches concatenate to
\* the list, every batch but the last has B elements, the last has len % B
\* elements when that is not zero and B otherwise, and no batch is empty.
C2_BatchesPartitionList ==
    (batchPc = "done" /\ lst # <<>>) =>
        LET n == Len(batches)
            r == Len(lst) % batch_size
        IN  /\ n >= 1
            /\ Concat(batches) = lst
            /\ \A k \in 1..(n - 1) : Len(batches[k]) = batch_size
            /\ Len(batches[n]) = (IF r # 0 THEN r ELSE batch_size)
            /\ \A k \in 1..n : batches[k] # <<>>

\* A list of four elements split by three: one full batch and a last one of 1.
C2_Witness ==
    /\ batchPc = "done"
    /\ Len(lst) = 4
    /\ batch_size = 3
    /\ Len(batches) = 2
    /\ Len(batches[2]) = 1

\* The accounts of every batch but the failed one.
AccountsOutsideFailedBatch ==
    LET fb == IF failedBatch[1] = "v2" THEN v2_batches[failedBatch[2]]
              ELSE v3_batches[failedBatch[2]]
    IN  {all_accounts[k] : k \in 1..Len(all_accounts)}
            \ {fb[k] : k \in 1..Len(fb)}

\* C3: a batch query that fails in a cycle costs only that batch: the cycle does
\* not crash, and every other batch, of either version, is still queried and
\* its accounts compared with their thresholds.
C3_FailedBatchIsSkipped ==
    (failedBatch # NoBatch /\ CycleOver) =>
        /\ pollerPc = "sleep"
        /\ \A acc \in AccountsOutsideFailedBatch :
             \E k \in 1..Len(CyclePairs) : CyclePairs[k][1] = acc

\* C4: the polling loop never ends because of an error: whatever raised in a
\* cycle, the coroutine is still in its loop (sleeping, or in a later cycle).
C4_LoopSurvivesErrors == pollerPc # "crashed"

\* The catch-up pass over the logs of v has run to its end.
PassOver(v) ==
    IF v = "V2" THEN catchupPc \in {"v3_get", "v3_proc", "done"} ELSE catchupPc = "done"

\* C5: after the catch-up pass of a version the stored checkpoint is the latest
\* block seen when the logs were queried, and a pass that fails leaves the
\* checkpoint as it was.
C5_CheckpointAdvancesToLatest ==
    /\ \A v \in Versions : PassOver(v) => settings[v] = latestAtQuery[v]
    /\ catchupPc = "crashed" => \A v \in Versions : ~PassOver(v) => settings[v] = 0

\* The notifier calls made for liquidation logs of v, as the logs they carry.
NotifiedLogs(v) ==
    LET mine == SelectSeq(liqNotifs, LAMBDA n : n.aave_version = v)
    IN  [k \in 1..Len(mine) |-> mine[k].log]

\* The logs of a sequence whose liquidated address is tracked for v.
TrackedLogs(v, ls) == SelectSeq(ls, LAMBDA l : isTracked(v, l.address))

\* C6: the catch-up pass notifies exactly once for every returned log of a
\* tracked account and never for an untracked one, and the checkpoint reaches
\* the block of the last log, and only once all the logs are processed.
C6_CatchupNotifiesTrackedAndAdvances ==
    \A v \in Versions :
        /\ PassOver(v) =>
             /\ NotifiedLogs(v) = TrackedLogs(v, logs[v])
             /\ logs[v] # <<>> => settings[v] >= logs[v][Len(logs[v])].blockNumber
        /\ settings[v] > 0 => PassOver(v)

\* The blocks of the logs the catch-up pass handed to process_liquidation_log,
\* and of the messages the live monitor decoded, for version v.
BlocksCaughtUp(v) ==
    {catchupHandled[k].blockNumber :
        k \in {j \in 1..Len(catchupHandled) : catchupHandled[j].aave_version = v}}
BlocksSeenLive(v) ==
    {GetKey(printed[v][k], "blockNumber") : k \in 1..Len(printed[v])}

\* C7: once the catch-up pass is done and the live monitor has drained what was
\* pushed on an open subscription, every liquidation of the version emitted
\* since the startup checkpoint was handled by one of the two.
C7_NoGapBetweenCatchupAndLive ==
    \A v \in Versions :
        (/\ catchupPc = "done"
         /\ monPc[v] = "receiving"
         /\ wsQueue[v] = <<>>
         /\ ~connClosed[v]) =>
            \A k \in 1..Len(chainLogs) :
                chainLogs[k].aave_version = v =>
                    chainLogs[k].blockNumber \in BlocksCaughtUp(v) \cup BlocksSeenLive(v)

\* C8: every pushed message that decodes is handed to process_liquidation_log
\* (so a tracked address is notified) and the stored checkpoint is then the
\* block number of that log.
C8_DecodedMessageProcessedAndCheckpointed ==
    \A v \in Versions :
        printed[v] # <<>> =>
            /\ settings[v] = GetKey(printed[v][Len(printed[v])], "blockNumber")
            /\ \A k \in 1..Len(printed[v]) :
                 isTracked(v, GetKey(printed[v][k], "address")) =>
                     \E n \in 1..Len(liqNotifs) :
                         /\ liqNotifs[n].aave_version = v
                         /\ liqNotifs[n].log.blockNumber = GetKey(printed[v][k], "blockNumber")

\* The monitor of v takes an undecodable message off its subscription.
DropsUndecodable(v) ==
    /\ monPc[v] = "receiving"
    /\ wsQueue[v] # <<>>
    /\ ~json_loads(Head(wsQueue[v])).ok
    /\ wsQueue'[v] = Tail(wsQueue[v])

\* C9: a pushed message that is not JSON is dropped: checkpoint, notifier and
\* handled messages are untouched, and the monitor stays in its receive loop on
\* the same connection with the rest of the pushed messages still to receive.
C9_UndecodableMessageIsDropped ==
    [][\A v \in Versions :
          DropsUndecodable(v) =>
              /\ monPc'[v] = "receiving"
              /\ procState' = procState
              /\ settings' = settings
              /\ liqNotifs' = liqNotifs
              /\ printed' = printed
              /\ connClosed' = connClosed
              /\ subState' = subState]_vars

\* The monitor dropped an undecodable message (it was pushed and is no longer
\* queued), handled nothing for it, and the valid message pushed after it is
\* the next one it receives.
C9_Witness ==
    \E v \in Versions :
        /\ monPc[v] = "receiving"
        /\ garbageCount[v] = 1
        /\ printed[v] = <<>>
        /\ Len(wsQueue[v]) = 1
        /\ json_loads(Head(wsQueue[v])).ok

\* C10: a subscription answered with an 'error' object ends that version's
\* monitor before its receive loop, and only that monitor: the process, with
\* the other version's monitor and the poller, goes on.
C10_StartupFailureIsConfined ==
    \A v \in Versions :
        (monPc[v] = "startup_failed" /\ subState[v] = "rejected") =>
            /\ printed[v] = <<>>
            /\ Alive

\* The receive of the monitor of v fails: the connection is closed, nothing is
\* left to deliver, and the coroutine leaves its await.
ReceiveFails(v) ==
    /\ monPc[v] = "receiving"
    /\ wsQueue[v] = <<>>
    /\ connClosed[v]
    /\ monPc'[v] # monPc[v]

\* C11: a receive that fails because the connection is closed ends the monitor
\* of that version, and an ended monitor stays ended: it handles no further
\* message, takes nothing more off the subscription and opens no new one.
C11_FailedReceiveEndsMonitor ==
    [][\A v \in Versions :
          /\ ReceiveFails(v) =>
                /\ monPc'[v] = "stopped"
                /\ printed'[v] = printed[v]
          /\ monPc[v] = "stopped" =>
                /\ monPc'[v] = "stopped"
                /\ printed'[v] = printed[v]
                /\ wsQueue'[v] = wsQueue[v]
                /\ subState'[v] = subState[v]
                /\ connClosed'[v] = connClosed[v]]_vars

\* The V3 monitor handled a message and then ended on a closed connection,
\* while the process and the V2 monitor go on.
C11_Witness ==
    /\ monPc["V3"] = "stopped"
    /\ connClosed["V3"]
    /\ printed["V3"] # <<>>
    /\ monPc["V2"] = "receiving"
    /\ Alive

\* C12: the live monitor of a version is started, and its subscription opened,
\* only once the catch-up pass of that version has run to its end.
C12_CatchupCompletesBeforeMonitor ==
    \A v \in Versions :
        (monPc[v] # "notstarted" \/ subState[v] # "none") => PassOver(v)

\* An endpoint variable is missing or empty.
Unconfigured(name) == environ[name] = None \/ environ[name] = ""

\* C15: constructing the connector of a chain raises StartupException when the
\* chain's HTTP endpoint or its websocket endpoint is not set or is empty, and
\* then there is no object and no RPC client; it succeeds exactly when both
\* are set, and the object then holds the chain's two endpoints.
C15_ConstructorNeedsBothEndpoints ==
    ctorPc # "call" =>
        IF Unconfigured(<<chain, "HTTP_RPC">>) \/ Unconfigured(<<chain, "WS_RPC">>)
        THEN /\ ctorPc = "StartupException"
             /\ ~connector.created
             /\ connector.web3 = None
        ELSE /\ ctorPc = "constructed"
             /\ connector.created
             /\ connector.chain = chain
             /\ connector.http_rpc_url = environ[<<chain, "HTTP_RPC">>]
             /\ connector.ws_rpc_url = environ[<<chain, "WS_RPC">>]
             /\ connector.web3 = environ[<<chain, "HTTP_RPC">>]

\* The constructor raised for a chain whose HTTP endpoint is set and whose
\* websocket endpoint is the empty string, while the other chain has both.
C15_Witness ==
    /\ ctorPc = "StartupException"
    /\ chain = "OPTIMISM"
    /\ environ[<<"OPTIMISM", "HTTP_RPC">>] = "rpc-a"
    /\ environ[<<"OPTIMISM", "WS_RPC">>] = ""
    /\ environ[<<"ETHEREUM", "HTTP_RPC">>] = "rpc-a"
    /\ environ[<<"ETHEREUM", "WS_RPC">>] = "rpc-b"

\* The logs of v on the chain in the blocks up to block b, in order.
LogsUpTo(v, b) ==
    SelectSeq(chainLogs, LAMBDA l : l.aave_version = v /\ l.blockNumber <= b)

\* C16: when no checkpoint is stored for a version, the historical range of the
\* catch-up pass starts at the default start block (the first block of the
\* chain here), never at the latest block: the fetch returns every log of the
\* version up to the latest block at the time of the query.
C16_FirstRunStartsFromDefaultBlock ==
    \A v \in Versions :
        (settings[v] = NoCheckpoint /\ latestAtQuery[v] >= 0) =>
            logs[v] = LogsUpTo(v, latestAtQuery[v])

\* C17: a get_logs call or a process_liquidation_log call that raises in the
\* pass of a version does not leave catchup_on_liquidations: the function goes
\* on past that version, so a failure in the V2 pass still lets the V3 pass
\* run.
C17_CatchupFailureIsContained ==
    \A v \in Versions : failedPass = v => PassOver(v)

\* s is a prefix of t.
IsPrefix(s, t) == Len(s) <= Len(t) /\ SubSeq(t, 1, Len(s)) = s

\* C18: polling cycles never overlap: a cycle starts only at the top of the
\* loop, the top of the loop is reached only when the coroutine starts or when
\* the sleep after a cycle is over, the sleep begins only when the cycle has
\* returned, and a cycle in progress is never started over.
C18_CyclesDoNotOverlap ==
    [][/\ cycle' # cycle => (pollerPc = "ready" /\ cycle' = cycle + 1)
       /\ (pollerPc' = "ready" /\ pollerPc # "ready") =>
              pollerPc \in {"notstarted", "sleep"}
       /\ (pollerPc' = "sleep" /\ pollerPc # "sleep") => pollerPc = "compare"
       /\ (PollerInSync /\ PollerInSync') =>
              /\ cycle' = cycle
              /\ all_accounts' = all_accounts
              /\ IsPrefix(queries, queries')]_vars

\* The second cycle is in progress, with every batch queried.
C18_Witness ==
    /\ cycle = 2
    /\ pollerPc = "compare"
    /\ Len(queries) = 3

\* The accounts of the answered queries of the cycle, each with the reading
\* the query returned for it.
RECURSIVE ComputedPairs(_)
ComputedPairs(qs) ==
    IF qs = <<>> THEN <<>>
    ELSE Zip(Head(qs).batch, Head(qs).readings) \o ComputedPairs(Tail(qs))

\* C19: every batch passed to a getter holds accounts of the getter's version
\* only; when a cycle has returned, one query was made per batch, every account
\* of the registry's list was in exactly one of them, and each account was
\* compared with the reading its own query returned for it: a notifier call
\* with that reading when it is below the account's threshold, no call
\* otherwise.
C19_ReadingsPairedByPosition ==
    /\ \A k \in 1..Len(queries) : \A j \in 1..Len(queries[k].batch) :
          queries[k].batch[j].aave_version = queries[k].aave_version
    /\ pollerPc = "sleep" =>
          LET pairs == ComputedPairs(queries)
          IN  /\ [k \in 1..Len(queries) |-> queries[k].batch] = v2_batches \o v3_batches
              /\ \A a \in 1..Len(all_accounts) :
                    Cardinality({k \in 1..Len(pairs) : pairs[k][1] = all_accounts[a]}) = 1
              /\ \A k \in 1..Len(pairs) :
                    LET acc == pairs[k][1]
                        hf == pairs[k][2]
                    IN  /\ Cardinality(CallsFor(acc)) =
                               (IF hf < acc.health_factor_threshold THEN 1 ELSE 0)
                        /\ \A c \in CallsFor(acc) : notifyCalls[c].health_factor = hf
              /\ \A c \in 1..Len(notifyCalls) :
                    \E k \in 1..Len(pairs) : pairs[k][1] = notifyCalls[c].account

\* A cycle with batches of two returned: the registry listed a V3 account
\* between the two V2 accounts, the second V2 account alone read below its
\* threshold, and the one notifier call is for it.
C19_Witness ==
    /\ pollerPc = "sleep"
    /\ scope.batch_size = 2
    /\ all_accounts = <<Account(1, "V2", 2), Account(3, "V3", 2), Account(2, "V2", 2)>>
    /\ Len(queries) = 2
    /\ queries[1].readings = <<3, 1>>
    /\ queries[2].readings = <<2>>
    /\ notifyCalls = <<[account |-> Account(2, "V2", 2), health_factor |-> 1]>>

\* C20: a notifier call of a cycle is made only when every batch of the cycle
\* has been queried, the V2 batches first and the V3 batches after them.
C20_NotifyAfterLastQuery ==
    notifyCalls # <<>> =>
        /\ [k \in 1..Len(queries) |-> queries[k].batch] = v2_batches \o v3_batches
        /\ \A j, k \in 1..Len(queries) :
              (queries[j].aave_version = "V2" /\ queries[k].aave_version = "V3") => j < k

\* Two V2 batches and then one V3 batch were queried, and the V3 account, whose
\* batch was the last query, is notified.
C20_Witness ==
    /\ Len(queries) = 3
    /\ queries[1].aave_version = "V2"
    /\ queries[3].aave_version = "V3"
    /\ \E c \in 1..Len(notifyCalls) : notifyCalls[c].account.aave_version = "V3"

\* The monitor of v is stalled: it awaits its acknowledgment or its next
\* message on an open connection and nothing has been pushed.
Stalled(v) ==
    /\ monPc[v] \in {"await_ack", "receiving"}
    /\ wsQueue[v] = <<>>
    /\ ~connClosed[v]

\* The next step of the polling loop can be taken.
PollerCanStep ==
    /\ (pollerPc = "ready" /\ cycle < scope.cycles) => ENABLED PollFetch
    /\ pollerPc = "v2" => ENABLED PollQueryV2
    /\ pollerPc = "v3" => ENABLED PollQueryV3
    /\ pollerPc = "compare" => ENABLED PollCompare
    /\ pollerPc = "sleep" => ENABLED PollWake

\* C13: while the monitor of one version is stalled, the monitor of the other
\* version takes the message pushed to it and the polling loop takes its next
\* step, whenever no synchronous method is holding the event loop.
C13_StalledMonitorBlocksNobody ==
    \A v \in Versions :
        (Stalled(v) /\ Alive /\ ~CatchupInSync) =>
            /\ PollerCanStep
            /\ ~PollerInSync =>
                  \A w \in Versions \ {v} :
                      (monPc[w] = "receiving" /\ wsQueue[w] # <<>>) => ENABLED MonRecv(w)

\* The V2 monitor is stalled in its receive loop while a message is pushed to
\* the V3 monitor and the polling loop is about to start a cycle.
C13_Witness ==
    /\ Stalled("V2")
    /\ monPc["V2"] = "receiving"
    /\ monPc["V3"] = "receiving"
    /\ wsQueue["V3"] # <<>>
    /\ pollerPc = "ready"
    /\ cycle < scope.cycles
    /\ Alive

\* C14: while a batched health-factor query of the poller or the get_logs call
\* of the catch-up pass has not returned, a live monitor with a pushed message
\* waiting takes it.
C14_StalledCallBlocksOnlyItsTask ==
    \A v \in Versions :
        (/\ pollerPc \in {"v2", "v3"} \/ catchupPc \in {"v2_get", "v3_get"}
         /\ monPc[v] = "receiving"
         /\ wsQueue[v] # <<>>
         /\ Alive) => ENABLED MonRecv(v)

====
